---- MODULE Spec2Model ----
(***************************************************************************)
(* Model of lib/rules/camelcase.js: the "camelcase" rule.                  *)
(*                                                                         *)
(* A string is a sequence of one-character strings, so that indexOf,       *)
(* toUpperCase, the anchored regular expressions and the character loop of *)
(* removeUnderscore are computed, not assumed.                             *)
(***************************************************************************)
EXTENDS Integers, Sequences, FiniteSets

VARIABLES tree, properties, reported, emitted, last, visits, text, newText

vars == <<tree, properties, reported, emitted, last, visits, text, newText>>

-----------------------------------------------------------------------------
(* Bounds of the model. *)

\* longest text enumerated exhaustively for removeUnderscore
MaxLen == 4

\* number of Identifier visits followed in one traversal
MaxVisits == 3

-----------------------------------------------------------------------------
(* Strings. *)

LowerLetters ==
    <<"a","b","c","d","e","f","g","h","i","j","k","l","m",
      "n","o","p","q","r","s","t","u","v","w","x","y","z">>

UpperLetters ==
    <<"A","B","C","D","E","F","G","H","I","J","K","L","M",
      "N","O","P","Q","R","S","T","U","V","W","X","Y","Z">>

\* String.prototype.toUpperCase on one character
charToUpperCase(c) ==
    IF \E i \in 1..Len(LowerLetters) : LowerLetters[i] = c
    THEN UpperLetters[CHOOSE i \in 1..Len(LowerLetters) : LowerLetters[i] = c]
    ELSE c

\* String.prototype.toUpperCase
toUpperCase(s) == [i \in 1..Len(s) |-> charToUpperCase(s[i])]

\* String.prototype.indexOf(c): zero-based index of the first occurrence, or -1
indexOf(s, c) ==
    IF \E i \in 1..Len(s) : s[i] = c
    THEN (CHOOSE i \in 1..Len(s) : s[i] = c /\ \A j \in 1..(i - 1) : s[j] # c) - 1
    ELSE -1

\* the match of /^_+/ against s (the empty string when the test fails)
RECURSIVE execPrefix(_)
execPrefix(s) ==
    IF s # <<>> /\ Head(s) = "_" THEN <<"_">> \o execPrefix(Tail(s)) ELSE <<>>

\* the match of /_+$/ against s (the empty string when the test fails)
RECURSIVE execSuffix(_)
execSuffix(s) ==
    IF s # <<>> /\ s[Len(s)] = "_"
    THEN execSuffix(SubSeq(s, 1, Len(s) - 1)) \o <<"_">>
    ELSE <<>>

\* s.replace(/^_+|_+$/g, ""): the global replace removes the leading run
\* first and then, from what is left, the trailing run
stripUnderscores(s) ==
    LET rest == SubSeq(s, Len(execPrefix(s)) + 1, Len(s))
    IN  SubSeq(rest, 1, Len(rest) - Len(execSuffix(rest)))


-----------------------------------------------------------------------------
(* Identifier names and input texts. *)

n_foo         == <<"f","o","o">>
n_my_prop     == <<"m","y","_","p","r","o","p">>
n__prop       == <<"_","p","r","o","p">>
n_MAX_VALUE   == <<"M","A","X","_","V","A","L","U","E">>
n__MAX_VALUE_ == <<"_","M","A","X","_","V","A","L","U","E","_">>

Names == {n_foo, n_my_prop, n__prop, n_MAX_VALUE, n__MAX_VALUE_}

\* the name of an object that no checked identifier shares
n_obj == <<"o","b","j">>

t_foo_bar          == <<"f","o","o","_","b","a","r">>
t_foo__bar         == <<"f","o","o","_","_","b","a","r">>
t_FOO_bar          == <<"F","O","O","_","b","a","r">>
t__foo             == <<"_","f","o","o">>
t__private_name__  ==
    <<"_","_","p","r","i","v","a","t","e","_","n","a","m","e","_","_">>

SampleTexts == {t_foo_bar, t_foo__bar, t_FOO_bar, t__foo, t__private_name__}

Alphabet == {"a", "b", "B", "_"}

Texts ==
    SampleTexts \cup UNION {[1..n -> Alphabet] : n \in 0..MaxLen}

-----------------------------------------------------------------------------
(* The syntax tree.  A tree is a sequence of nodes; a node is named by its  *)
(* index, which is its object identity; 0 stands for an absent node.  A     *)
(* node carries the fields the rule reads.                                  *)

NoName == <<>>

Node(type, name, parent, object, property, left, right, key, value, local) ==
    [type |-> type, name |-> name, parent |-> parent, object |-> object,
     property |-> property, left |-> left, right |-> right, key |-> key,
     value |-> value, local |-> local]

IdentifierNode(name, parent) ==
    Node("Identifier", name, parent, 0, 0, 0, 0, 0, 0, 0)

PlainNode(type, parent) ==
    Node(type, NoName, parent, 0, 0, 0, 0, 0, 0, 0)

MemberNode(parent, object, property) ==
    Node("MemberExpression", NoName, parent, object, property, 0, 0, 0, 0, 0)

AssignmentNode(parent, left, right) ==
    Node("AssignmentExpression", NoName, parent, 0, 0, left, right, 0, 0, 0)

PropertyNode(parent, key, value) ==
    Node("Property", NoName, parent, 0, 0, 0, 0, key, value, 0)

SpecifierNode(type, parent, local) ==
    Node(type, NoName, parent, 0, 0, 0, 0, 0, 0, local)

(* Expression shapes, from which the trees are built. *)

ThisObj == <<"this">>
LitVal  == <<"literal">>
SameVal == <<"same">>

Shape(k, obj, name, val) == [k |-> k, obj |-> obj, name |-> name, val |-> val]

\* x
Idents == {Shape("ident", NoName, n, NoName) : n \in Names}
\* 5
Literals == {Shape("literal", NoName, NoName, NoName)}
\* obj.prop, this.prop
Members ==
    {Shape("member", o, n, NoName) : o \in Names \cup {ThisObj, n_obj}, n \in Names}
\* {key: 1}, {key: value}, {key} with one node as key and value
ObjectLiterals ==
    {Shape("object", NoName, n, v) : n \in Names, v \in {LitVal, SameVal, n_foo}}
\* {key: value}, {key} with one node as key and value
ObjectPatterns ==
    {Shape("pattern", NoName, n, v) : n \in Names, v \in {SameVal, n_foo, n_my_prop}}

\* the nodes of expression e, the first at index base, below node parent
Sub(e, base, parent) ==
    CASE e.k = "ident"   -> <<IdentifierNode(e.name, parent)>>
      [] e.k = "literal" -> <<PlainNode("Literal", parent)>>
      [] e.k = "member"  ->
            <<MemberNode(parent, base + 1, base + 2),
              IF e.obj = ThisObj THEN PlainNode("ThisExpression", base)
                                 ELSE IdentifierNode(e.obj, base),
              IdentifierNode(e.name, base)>>
      [] e.k \in {"object", "pattern"} ->
            <<PlainNode(IF e.k = "object" THEN "ObjectExpression"
                                          ELSE "ObjectPattern", parent),
              PropertyNode(base, base + 2,
                           IF e.val = SameVal THEN base + 2 ELSE base + 3),
              IdentifierNode(e.name, base + 1)>>
            \o (IF e.val = SameVal THEN <<>>
                ELSE IF e.val = LitVal THEN <<PlainNode("Literal", base + 1)>>
                ELSE <<IdentifierNode(e.val, base + 1)>>)

\* l = r;
AssignmentTree(l, r) ==
    LET ls == Sub(l, 3, 2)
    IN  <<PlainNode("ExpressionStatement", 0), AssignmentNode(1, 3, 3 + Len(ls))>>
        \o ls \o Sub(r, 3 + Len(ls), 2)

\* e(...), f(e), new e(...), new F(e): e is a child of the call
CallTree(type, e) ==
    <<PlainNode(type, 0)>> \o Sub(e, 2, 1)

\* var id = init;
DeclaratorTree(id, init) ==
    LET is == Sub(id, 2, 1)
    IN  <<PlainNode("VariableDeclarator", 0)>> \o is \o Sub(init, 2 + Len(is), 1)

\* import {imported as local} from "m": two nodes
RenamingImportTree(imported, local) ==
    <<PlainNode("ImportDeclaration", 0), SpecifierNode("ImportSpecifier", 1, 4),
      IdentifierNode(imported, 2), IdentifierNode(local, 2)>>

\* import {local} from "m", import local from "m", import * as local from "m"
ImportTree(type, local) ==
    <<PlainNode("ImportDeclaration", 0), SpecifierNode(type, 1, 3),
      IdentifierNode(local, 2)>>

Trees ==
    {AssignmentTree(l, r) : l \in Idents \cup Members, r \in Literals \cup Members}
    \cup {AssignmentTree(l, r) : l \in ObjectPatterns, r \in Idents}
    \cup {CallTree(t, e) : t \in {"CallExpression", "NewExpression"},
                           e \in Idents \cup Members \cup ObjectLiterals}
    \cup {DeclaratorTree(id, init) : id \in Idents,
                                     init \in Literals \cup ObjectLiterals}
    \cup {DeclaratorTree(id, init) : id \in ObjectPatterns, init \in Literals}
    \cup {RenamingImportTree(i, l) : i \in Names, l \in Names}
    \cup {ImportTree(t, l) : t \in {"ImportSpecifier", "ImportNamespaceSpecifier",
                                    "ImportDefaultSpecifier"}, l \in Names}

-----------------------------------------------------------------------------
(* isUnderscored and removeUnderscore. *)

\* isUnderscored without the exemption of all-uppercase names
isUnderscored_anyCase(name) == indexOf(name, "_") > -1

isUnderscored(name) ==
    indexOf(name, "_") > -1 /\ name # toUpperCase(name)

\* the loop with wasUnderscore never cleared
RECURSIVE removeLoop_flagKept(_, _, _, _)
removeLoop_flagKept(targetText, i, acc, wasUnderscore) ==
    IF i > Len(targetText) THEN acc
    ELSE IF targetText[i] = "_"
         THEN removeLoop_flagKept(targetText, i + 1, acc, TRUE)
    ELSE IF wasUnderscore
         THEN removeLoop_flagKept(targetText, i + 1,
                                  acc \o <<charToUpperCase(targetText[i])>>, TRUE)
         ELSE removeLoop_flagKept(targetText, i + 1, acc \o <<targetText[i]>>,
                                  FALSE)

\* the loop copying the character after an underscore unchanged
RECURSIVE removeLoop_noUpperCase(_, _, _, _)
removeLoop_noUpperCase(targetText, i, acc, wasUnderscore) ==
    IF i > Len(targetText) THEN acc
    ELSE IF targetText[i] = "_"
         THEN removeLoop_noUpperCase(targetText, i + 1, acc, TRUE)
    ELSE removeLoop_noUpperCase(targetText, i + 1, acc \o <<targetText[i]>>, FALSE)

\* the for loop of removeUnderscore from index i (one-based) on, with the
\* loop's two variables
RECURSIVE removeLoop(_, _, _, _)
removeLoop(targetText, i, acc, wasUnderscore) ==
    IF i > Len(targetText) THEN acc
    ELSE IF targetText[i] = "_" THEN removeLoop(targetText, i + 1, acc, TRUE)
    ELSE IF wasUnderscore
         THEN removeLoop(targetText, i + 1,
                         acc \o <<charToUpperCase(targetText[i])>>, FALSE)
         ELSE removeLoop(targetText, i + 1, acc \o <<targetText[i]>>, FALSE)

removeUnderscore(t) ==
    LET privateFlagPrefix == execPrefix(t)
        privateFlagSuffix == execSuffix(t)
        targetText == stripUnderscores(t)
    IN  privateFlagPrefix \o removeLoop(targetText, 1, <<>>, FALSE)
                          \o privateFlagSuffix

-----------------------------------------------------------------------------
(* create(context): the option and the Identifier handler. *)

\* the values context.options[0].properties may have; "" is an absent option
OptionValues == {"always", "never", "", "sometimes"}

\* the value of properties after create() has normalised the option
createProperties(option) ==
    IF option # "always" /\ option # "never" THEN "always" ELSE option

ALLOWED_PARENT_TYPES == {"CallExpression", "NewExpression"}

ImportSpecifierTypes ==
    {"ImportSpecifier", "ImportNamespaceSpecifier", "ImportDefaultSpecifier"}

\* the index of effectiveParent of node n
effectiveParent(t, n) ==
    IF t[t[n].parent].type = "MemberExpression"
    THEN t[t[n].parent].parent
    ELSE t[n].parent

\* the name judged with its private underscores left in place
strippedName_unstripped(t, n) == t[n].name

\* node.name.replace(/^_+|_+$/g, "")
strippedName(t, n) == stripUnderscores(t[n].name)

\* the branch taken when node.parent is a MemberExpression:
\* TRUE when it calls report(node)
MemberRule(t, n, props) ==
    LET parent == t[t[n].parent]
        ep     == t[effectiveParent(t, n)]
        name   == strippedName(t, n)
    IN  IF props = "never" THEN FALSE
        ELSE IF /\ t[parent.object].type = "Identifier"
                /\ t[parent.object].name = t[n].name
                /\ isUnderscored(name)
             THEN TRUE
        ELSE /\ ep.type = "AssignmentExpression"
             /\ isUnderscored(name)
             /\ \/ t[ep.right].type # "MemberExpression"
                \/ /\ t[ep.left].type = "MemberExpression"
                   /\ t[t[ep.left].property].name = t[n].name

\* the Property branch without the check of the option
PropertyRule_ignoresNever(t, n, props) ==
    LET parent == t[t[n].parent]
        ep     == t[effectiveParent(t, n)]
        name   == strippedName(t, n)
    IN  IF /\ parent.parent # 0
           /\ t[parent.parent].type = "ObjectPattern"
           /\ parent.key = n
           /\ parent.value # n
        THEN FALSE
        ELSE isUnderscored(name) /\ ep.type \notin ALLOWED_PARENT_TYPES

\* the Property branch looking for the call above the object literal
PropertyRule_exemptsCallArgument(t, n, props) ==
    LET parent == t[t[n].parent]
        name   == strippedName(t, n)
    IN  IF props = "never" THEN FALSE
        ELSE IF /\ parent.parent # 0
                /\ t[parent.parent].type = "ObjectPattern"
                /\ parent.key = n
                /\ parent.value # n
             THEN FALSE
        ELSE /\ isUnderscored(name)
             /\ t[t[parent.parent].parent].type \notin ALLOWED_PARENT_TYPES

\* the Property branch without the early return for destructuring keys
PropertyRule_noPatternReturn(t, n, props) ==
    LET ep   == t[effectiveParent(t, n)]
        name == strippedName(t, n)
    IN  IF props = "never" THEN FALSE
        ELSE isUnderscored(name) /\ ep.type \notin ALLOWED_PARENT_TYPES

\* the branch taken when node.parent is a Property
PropertyRule(t, n, props) ==
    LET parent == t[t[n].parent]
        ep     == t[effectiveParent(t, n)]
        name   == strippedName(t, n)
    IN  IF props = "never" THEN FALSE
        ELSE IF /\ parent.parent # 0
                /\ t[parent.parent].type = "ObjectPattern"
                /\ parent.key = n
                /\ parent.value # n
             THEN FALSE
        ELSE isUnderscored(name) /\ ep.type \notin ALLOWED_PARENT_TYPES

\* the branch taken when node.parent is an import specifier
ImportRule(t, n) ==
    LET parent == t[t[n].parent]
        name   == strippedName(t, n)
    IN  /\ parent.local # 0
        /\ t[parent.local].name = t[n].name
        /\ isUnderscored(name)

\* the last branch
OtherRule(t, n) ==
    LET ep   == t[effectiveParent(t, n)]
        name == strippedName(t, n)
    IN  isUnderscored(name) /\ ep.type \notin ALLOWED_PARENT_TYPES

\* Identifier(node): TRUE when the handler calls report(node)
IdentifierReports(t, n, props) ==
    LET parentType == t[t[n].parent].type
    IN  IF parentType = "MemberExpression" THEN MemberRule(t, n, props)
        ELSE IF parentType = "Property" THEN PropertyRule(t, n, props)
        ELSE IF parentType \in ImportSpecifierTypes THEN ImportRule(t, n)
        ELSE OtherRule(t, n)

\* report() without the look-up in the reported list
notYetReported_always(list, n) == TRUE

\* reported.indexOf(node) < 0
notYetReported(list, n) == \A i \in 1..Len(list) : list[i] # n

\* what context.report receives: the node, the message data and the text the
\* fix callback computes from sourceCode.getText(node)
reportDescriptor(t, n) ==
    [node |-> n, name |-> t[n].name, fix |-> removeUnderscore(t[n].name)]

-----------------------------------------------------------------------------
(* One traversal of one tree by one rule instance. *)

NoVisit == [node |-> 0, calls |-> FALSE, emits |-> FALSE]

Pending == <<"pending">>

Init ==
    /\ tree \in Trees
    /\ properties \in {createProperties(o) : o \in OptionValues}
    /\ reported = <<>>
    /\ emitted = <<>>
    /\ last = NoVisit
    /\ visits = 0
    /\ text = NoName
    /\ newText = Pending

\* the traverser calls the Identifier handler on node n
Identifier(n) ==
    /\ visits < MaxVisits
    /\ tree[n].type = "Identifier"
    /\ LET calls == IdentifierReports(tree, n, properties)
           emits == calls /\ notYetReported(reported, n)
       IN  /\ reported' = IF emits THEN Append(reported, n) ELSE reported
           /\ emitted' = IF emits THEN Append(emitted, reportDescriptor(tree, n))
                                  ELSE emitted
           /\ last' = [node |-> n, calls |-> calls, emits |-> emits]
    /\ visits' = visits + 1
    /\ UNCHANGED <<tree, properties, text, newText>>

Next == \E n \in 1..Len(tree) : Identifier(n)

Spec == Init /\ [][Next]_vars

-----------------------------------------------------------------------------
(* removeUnderscore applied to every text of a bounded set. *)

InitRewrite ==
    /\ text \in Texts
    /\ newText = Pending
    /\ tree = <<>>
    /\ properties = "always"
    /\ reported = <<>>
    /\ emitted = <<>>
    /\ last = NoVisit
    /\ visits = 0

Rewrite ==
    /\ newText = Pending
    /\ newText' = removeUnderscore(text)
    /\ UNCHANGED <<tree, properties, reported, emitted, last, visits, text>>

NextRewrite == Rewrite

SpecRewrite == InitRewrite /\ [][NextRewrite]_vars

-----------------------------------------------------------------------------
(* Vocabulary of the properties, stated without the rule's own helpers. *)

HasUnderscore(s) == \E i \in 1..Len(s) : s[i] = "_"

HasLowerCase(s) ==
    \E i \in 1..Len(s) : \E k \in 1..Len(LowerLetters) : s[i] = LowerLetters[k]

\* length of the run of underscores s starts with
LeadingRunLen(s) ==
    CHOOSE k \in 0..Len(s) :
        /\ \A i \in 1..k : s[i] = "_"
        /\ k < Len(s) => s[k + 1] # "_"

\* length of the run of underscores s ends with
TrailingRunLen(s) ==
    CHOOSE k \in 0..Len(s) :
        /\ \A i \in (Len(s) - k + 1)..Len(s) : s[i] = "_"
        /\ k < Len(s) => s[Len(s) - k] # "_"

Underscores(k) == [i \in 1..k |-> "_"]

CountUnderscores(s) == Cardinality({i \in 1..Len(s) : s[i] = "_"})

\* s without its leading and trailing underscore runs
CoreOf(s) ==
    IF \A i \in 1..Len(s) : s[i] = "_" THEN <<>>
    ELSE SubSeq(s, LeadingRunLen(s) + 1, Len(s) - TrailingRunLen(s))

\* a name breaks the convention: its core has an underscore and a character
\* that upper-casing changes
BreaksCamelCase(s) == HasUnderscore(CoreOf(s)) /\ HasLowerCase(CoreOf(s))

\* the core with every underscore dropped and each character that directly
\* follows an underscore upper-cased
CamelCore(c) ==
    LET kept == {i \in 1..Len(c) : c[i] # "_"}
        at(j) == CHOOSE i \in kept : Cardinality({k \in kept : k <= i}) = j
    IN  [j \in 1..Cardinality(kept) |->
            IF at(j) > 1 /\ c[at(j) - 1] = "_" THEN charToUpperCase(c[at(j)])
                                                ELSE c[at(j)]]

ReferenceRewrite(t) ==
    Underscores(LeadingRunLen(t)) \o CamelCore(CoreOf(t))
                                   \o Underscores(TrailingRunLen(t))

\* the node of the latest Identifier visit, its parent and its grandparent
Visited      == last.node # 0
VisitedNode  == tree[last.node]
VisitedParent == tree[VisitedNode.parent]
VisitedGrand == tree[VisitedParent.parent]

\* the latest visit was of the property of a member access
VisitedIsMemberProperty ==
    /\ Visited
    /\ VisitedParent.type = "MemberExpression"
    /\ VisitedParent.property = last.node

\* the latest visit was of the key of a property of an object literal/pattern
VisitedIsKeyOf(container) ==
    /\ Visited
    /\ VisitedParent.type = "Property"
    /\ VisitedParent.key = last.node
    /\ VisitedGrand.type = container

-----------------------------------------------------------------------------
(* C1: the Identifier handler calls report only for a node whose name,     *)
(* stripped of its leading and trailing underscore runs, contains an       *)
(* underscore and is not its own upper-cased form; so a name without       *)
(* underscore and an all-uppercase name, private underscores or not, is    *)
(* never reported, in any context and either mode.                         *)
C1_ReportsOnlyUnderscored ==
    Visited =>
        /\ last.calls => BreaksCamelCase(VisitedNode.name)
        /\ VisitedNode.name \in {n_foo, n_MAX_VALUE, n__MAX_VALUE_} => ~last.calls
        /\ \A i \in 1..Len(emitted) : BreaksCamelCase(emitted[i].name)

C1_Witness ==
    /\ Len(emitted) = 1
    /\ Visited
    /\ VisitedNode.name = n__MAX_VALUE_
    /\ VisitedParent.type = "AssignmentExpression"
    /\ ~last.calls

(* C2 as stated: with properties = never no identifier whose parent is a   *)
(* member access, a property or an import specifier is reported.           *)
C2_NeverExemptsImports ==
    (/\ properties = "never"
     /\ Visited
     /\ VisitedParent.type \in {"MemberExpression", "Property"}
                               \cup ImportSpecifierTypes)
    => ~last.calls

(* C2 amended: with properties = never no identifier whose parent is a     *)
(* member access or an object-literal/destructuring property is reported,  *)
(* whatever its name; an identifier whose parent is an import specifier is *)
(* reported in either mode exactly when the specifier's local name is its  *)
(* own name and its stripped name is underscored.                          *)
C2_NeverExemptsProperties ==
    Visited =>
        /\ (/\ properties = "never"
            /\ VisitedParent.type \in {"MemberExpression", "Property"})
           => ~last.calls
        /\ VisitedParent.type \in ImportSpecifierTypes
           => (last.calls <=>
                 /\ tree[VisitedParent.local].name = VisitedNode.name
                 /\ BreaksCamelCase(VisitedNode.name))

C2_Witness ==
    /\ properties = "never"
    /\ VisitedIsKeyOf("ObjectExpression")
    /\ VisitedNode.name = n_my_prop
    /\ ~last.calls
    /\ Len(emitted) = 1

-----------------------------------------------------------------------------
(* Statements the properties name. *)

\* obj.<prop> = 5; the property identifier is node 5
ObjAssignment(prop) ==
    AssignmentTree(Shape("member", n_obj, prop, NoName),
                   Shape("literal", NoName, NoName, NoName))

(* C3 as stated: with properties = always the visit of _prop in            *)
(* obj._prop = 5 produces a report.                                        *)
C3_PrivatePropReported ==
    (/\ properties = "always"
     /\ tree = ObjAssignment(n__prop)
     /\ last.node = 5)
    => (last.calls /\ \E i \in 1..Len(emitted) : emitted[i].node = 5)

(* C3 amended: with properties = always the visit of the property          *)
(* identifier of a member access that is the left-hand side of an          *)
(* assignment whose right-hand side is not a member access produces a      *)
(* report exactly when the name, stripped of leading and trailing          *)
(* underscores, is underscored: obj.my_prop = 5 is reported, obj._prop = 5 *)
(* is not.                                                                 *)
C3_AssignedPropReportedIffUnderscored ==
    (/\ properties = "always"
     /\ VisitedIsMemberProperty
     /\ VisitedGrand.type = "AssignmentExpression"
     /\ VisitedGrand.left = VisitedNode.parent
     /\ tree[VisitedGrand.right].type # "MemberExpression")
    => /\ last.calls <=> BreaksCamelCase(VisitedNode.name)
       /\ last.calls <=> \E i \in 1..Len(emitted) : emitted[i].node = last.node
       /\ tree = ObjAssignment(n__prop) => ~last.calls
       /\ tree = ObjAssignment(n_my_prop) => last.calls

C3_Witness ==
    /\ properties = "always"
    /\ tree = ObjAssignment(n_my_prop)
    /\ last.node = 5
    /\ last.emits

-----------------------------------------------------------------------------
(* C4 as stated: with properties = always an underscored key of an object  *)
(* literal passed directly to a call or construct expression is not        *)
(* reported, and the same key in a variable initializer is.                *)
C4_CallArgumentKeyExempt ==
    (/\ properties = "always"
     /\ VisitedIsKeyOf("ObjectExpression")
     /\ BreaksCamelCase(VisitedNode.name))
    => IF tree[VisitedGrand.parent].type \in {"CallExpression", "NewExpression"}
       THEN ~last.calls
       ELSE last.calls

(* C4 amended: with properties = always an underscored key of an object    *)
(* literal is reported both when the literal is passed directly as an      *)
(* argument of a call or construct expression and when it is a variable    *)
(* initializer; the call/construct exemption covers only an identifier     *)
(* that is itself a child of the call or construct expression.             *)
C4_ObjectKeyAlwaysReported ==
    /\ (/\ properties = "always"
        /\ VisitedIsKeyOf("ObjectExpression")
        /\ BreaksCamelCase(VisitedNode.name))
       => /\ tree[VisitedGrand.parent].type
                \in {"CallExpression", "NewExpression", "VariableDeclarator"}
          /\ last.calls
          /\ \E i \in 1..Len(emitted) : emitted[i].node = last.node
    /\ (Visited /\ VisitedParent.type \in {"CallExpression", "NewExpression"})
       => ~last.calls

C4_Witness ==
    /\ properties = "always"
    /\ tree = CallTree("CallExpression", Shape("object", NoName, n_my_prop, LitVal))
    /\ last.node = 4
    /\ last.emits

-----------------------------------------------------------------------------
(* C5: in one traversal every node is reported at most once; a visit of a  *)
(* node already in the reported list emits nothing and leaves the list     *)
(* unchanged, so the single identifier of a shorthand destructuring entry, *)
(* visited as key and as value, yields at most one report.                 *)
C5_ReportedAtMostOnce ==
    /\ [](/\ \A i, j \in 1..Len(emitted) :
                emitted[i].node = emitted[j].node => i = j
          /\ reported = [i \in 1..Len(emitted) |-> emitted[i].node])
    /\ [][(\E i \in 1..Len(reported) : reported[i] = last'.node)
            => (reported' = reported /\ emitted' = emitted /\ ~last'.emits)]_vars

C5_Witness ==
    /\ tree = AssignmentTree(Shape("pattern", NoName, n_my_prop, SameVal),
                             Shape("ident", NoName, n_foo, NoName))
    /\ visits = 2
    /\ last.node = 5
    /\ last.calls
    /\ ~last.emits
    /\ reported = <<5>>
    /\ Len(emitted) = 1

-----------------------------------------------------------------------------
(* C6: for every text removeUnderscore returns the leading underscore run, *)
(* then the core with every underscore dropped and the first character     *)
(* after each underscore run upper-cased, then the trailing underscore     *)
(* run; foo_bar gives fooBar, __private_name__ gives __privateName__ and   *)
(* foo__bar gives fooBar.                                                  *)
C6_RewriteMatchesReference ==
    newText # Pending =>
        /\ newText = ReferenceRewrite(text)
        /\ text = t_foo_bar => newText = <<"f","o","o","B","a","r">>
        /\ text = t_foo__bar => newText = <<"f","o","o","B","a","r">>
        /\ text = t__private_name__ =>
              newText = <<"_","_","p","r","i","v","a","t","e","N","a","m","e","_","_">>

C6_Witness ==
    /\ text = t__private_name__
    /\ newText = <<"_","_","p","r","i","v","a","t","e","N","a","m","e","_","_">>

(* C7 as stated: removeUnderscore of FOO_bar is FOObar.                     *)
C7_FOObar ==
    (text = t_FOO_bar /\ newText # Pending)
    => newText = <<"F","O","O","b","a","r">>

(* C7 amended: removeUnderscore of FOO_bar is FOOBar: the characters before *)
(* the underscore are copied unchanged and the character after it is       *)
(* upper-cased, giving the six characters F,O,O,B,a,r.                     *)
C7_FOOBar ==
    (text = t_FOO_bar /\ newText # Pending)
    => newText = <<"F","O","O","B","a","r">>

C7_Witness ==
    /\ text = t_FOO_bar
    /\ newText # Pending
    /\ Len(newText) = 6

-----------------------------------------------------------------------------
(* C8: with properties = always the property identifier of a member access *)
(* that is the right-hand side of an assignment, its name differing from   *)
(* the name of that member access's object, is not reported, whatever the  *)
(* left-hand side is.                                                      *)
C8_ReadNeverReported ==
    (/\ properties = "always"
     /\ VisitedIsMemberProperty
     /\ VisitedGrand.type = "AssignmentExpression"
     /\ VisitedGrand.right = VisitedNode.parent
     /\ tree[VisitedParent.object].name # VisitedNode.name)
    => ~last.calls

(* C9 as stated: with properties = always the key of a shorthand           *)
(* destructuring entry, key and value being one node, is never reported.   *)
C9_ShorthandKeyNeverReported ==
    (/\ properties = "always"
     /\ VisitedIsKeyOf("ObjectPattern")
     /\ VisitedParent.value = last.node)
    => ~last.calls

(* C9 amended: with properties = always the key of a destructuring entry   *)
(* whose value is another node, as in {foo: bar}, is never reported,       *)
(* whatever its name; the key of a shorthand entry, key and value being    *)
(* one node as in {foo}, is reported exactly when its stripped name is     *)
(* underscored.                                                            *)
C9_RenamingKeyNeverReported ==
    (properties = "always" /\ VisitedIsKeyOf("ObjectPattern"))
    => IF VisitedParent.value # last.node
       THEN ~last.calls
       ELSE last.calls <=> BreaksCamelCase(VisitedNode.name)

C9_Witness ==
    /\ properties = "always"
    /\ VisitedIsKeyOf("ObjectPattern")
    /\ VisitedParent.value # last.node
    /\ VisitedNode.name = n_my_prop
    /\ ~last.calls

-----------------------------------------------------------------------------
====
